---- MODULE Spec2Model ----
(***************************************************************************)
(* Model of the sales-forecasting flow of the POS backend:                 *)
(*   backend/app/routes/forecasting.py  (generate_forecast, POST           *)
(*   /api/forecasting/arima, and generate_arima_forecast, the core),       *)
(*   backend/app/schemas.py             (ARIMAForecastRequest),            *)
(* and of the services around it:                                          *)
(*   backend/app/middleware.py          (RateLimitMiddleware),             *)
(*   backend/app/metrics.py             (MetricsMiddleware),               *)
(*   backend/app/routes/auth.py         (user registration and admin),     *)
(*   backend/app/routes/forecasting.py  (stored forecasts, pagination),    *)
(*   backend/app/routes/transactions.py (sales and stock).                 *)
(*                                                                         *)
(* Numbers.  Money amounts are floats in the code.  Here an amount is an   *)
(* integer number of currency units; every computed real is fixed point:   *)
(* "milli" = thousandths, "centi" = hundredths.  round(x, 2) maps milli to *)
(* centi.  confidence_level is kept in hundredths (0.95 is 95).            *)
(*                                                                         *)
(* Dates.  A calendar day (and the string 'YYYY-MM-DD') is <<y, m, d>>;    *)
(* a pandas Timestamp at midnight is its day ordinal (ToOrdinal).          *)
(* A database DateTime is [date |-> <<y,m,d>>, hour |-> h].                *)
(*                                                                         *)
(* Optional[int] is <<>> for None and <<i>> for the integer i.             *)
(***************************************************************************)
EXTENDS Integers, Sequences, FiniteSets, TLC

VARIABLES
    transactions,     \* rows of the transactions table
    products,         \* products table: id -> quantity
    pc,               \* position of the forecast invocation
    entry,            \* "http": POST /api/forecasting/arima, "core": direct call
    request,          \* ARIMAForecastRequest / arguments of the core
    historical_data,  \* list of {"date", "value"} handed to the core
    fit,              \* outcome of the statsmodels fit + forecast
    fallback,         \* locals of the except branch (window, base, std, z)
    forecast_data,    \* list of ARIMAForecastPoint
    metrics,          \* model_metrics dict (<<>> for {})
    status,           \* HTTP status / outcome of the invocation
    other,            \* the same locals of a second invocation, running in
                      \* another worker thread and currently not scheduled
    environ,          \* os.environ: TESTING, DATABASE_URL
    clock,            \* time.time() / datetime.utcnow(), in whole seconds
    response,         \* the call handled last and the response it got
    limiter,          \* the RateLimitMiddleware instance (self)
    dispatched,       \* history: rate-limited dispatches and their outcome
    registry,         \* Prometheus metrics of metrics.py
    inflight,         \* requests inside MetricsMiddleware.dispatch
    users,            \* rows of the users table
    forecasts,        \* rows of the sales_forecasts table
    removed,          \* history: ids of the forecasts deleted so far
    last_id,          \* per table, the highest id handed out so far
    sessions          \* create_transaction requests, one db session each

\* the state of the services around the forecasting flow
backend == <<environ, clock, response, limiter, dispatched, registry, inflight,
             users, forecasts, removed, last_id, sessions>>

\* the locals of the forecasting flow
forecasting == <<pc, entry, request, historical_data, fit, fallback,
                 forecast_data, metrics, status, other>>

vars == <<transactions, products, pc, entry, request, historical_data, fit,
          fallback, forecast_data, metrics, status, other, backend>>

----------------------------------------------------------------------------
(* Bounds of the model                                                      *)

MaxTx == 3          \* rows in the transactions table
MaxHist == 3        \* points of a history handed directly to the core
MaxPeriods == 2     \* largest in-range horizon explored
MaxLong == 11       \* points of the longest history handed to the core

----------------------------------------------------------------------------
(* Program constants                                                        *)

PeriodsMin == 1         \* schemas.py: periods ge=1
PeriodsMax == 365       \* schemas.py: periods le=365
ConfidenceMin == 50     \* schemas.py: confidence_level ge=0.5
ConfidenceMax == 99     \* schemas.py: confidence_level le=0.99
MinDataPointsTwo == 3 - 1   \* variant: "len(historical_data) < 2"
MinDataPoints == 3      \* forecasting.py: len(historical_data) < 3
DiffThreshold == 10     \* forecasting.py: len(values) >= 10
MaWindow == 7           \* forecasting.py: min(7, len(values))

----------------------------------------------------------------------------
(* Calendar: datetime.date / pandas.Timestamp arithmetic                    *)

Epoch == <<2024, 1, 1>>     \* the day of ordinal 1; every date of the model is later
BaseYear == Epoch[1]

IsLeap(y) == (y % 4 = 0 /\ y % 100 # 0) \/ (y % 400 = 0)

DaysInMonth(y, m) ==
    IF m = 2 THEN (IF IsLeap(y) THEN 29 ELSE 28)
    ELSE IF m \in {4, 6, 9, 11} THEN 30 ELSE 31

DaysInYear(y) == IF IsLeap(y) THEN 366 ELSE 365

RECURSIVE DaysBeforeYear(_)
DaysBeforeYear(y) ==
    IF y <= BaseYear THEN 0 ELSE DaysBeforeYear(y - 1) + DaysInYear(y - 1)

RECURSIVE DaysBeforeMonth(_, _)
DaysBeforeMonth(y, m) ==
    IF m <= 1 THEN 0 ELSE DaysBeforeMonth(y, m - 1) + DaysInMonth(y, m - 1)

\* pd.to_datetime('YYYY-MM-DD'): the day ordinal (1 is January 1st of BaseYear)
ToOrdinal(date) ==
    DaysBeforeYear(date[1]) + DaysBeforeMonth(date[1], date[2]) + date[3]

RECURSIVE FromOrdinalFrom(_, _, _)
FromOrdinalFrom(y, m, n) ==
    IF n > DaysInYear(y) /\ m = 1 THEN FromOrdinalFrom(y + 1, 1, n - DaysInYear(y))
    ELSE IF n > DaysInMonth(y, m) THEN FromOrdinalFrom(y, m + 1, n - DaysInMonth(y, m))
    ELSE <<y, m, n>>

\* Timestamp.strftime('%Y-%m-%d')
Strftime(n) == FromOrdinalFrom(BaseYear, 1, n)

\* func.date(Transaction.transaction_date): the calendar day of a DateTime
SqlDate(ts) == ts.date

----------------------------------------------------------------------------
(* Numeric helpers                                                          *)

Max0(x) == IF x > 0 THEN x ELSE 0

Min(a, b) == IF a <= b THEN a ELSE b

\* round(x, 2): milli -> centi, ties to even
Round2(x) ==
    LET q == x \div 10
        r == x % 10
    IN  IF r < 5 THEN q
        ELSE IF r > 5 THEN q + 1
        ELSE IF q % 2 = 0 THEN q ELSE q + 1

RECURSIVE SumSeq(_)
SumSeq(s) == IF s = <<>> THEN 0 ELSE Head(s) + SumSeq(Tail(s))

RECURSIVE SumSquares(_)
SumSquares(s) == IF s = <<>> THEN 0 ELSE Head(s) * Head(s) + SumSquares(Tail(s))

RECURSIVE IsqrtBetween(_, _, _)
IsqrtBetween(n, lo, hi) ==
    IF lo >= hi THEN lo
    ELSE LET mid == (lo + hi + 1) \div 2
         IN  IF mid * mid <= n THEN IsqrtBetween(n, mid, hi)
             ELSE IsqrtBetween(n, lo, mid - 1)

\* floor of the square root
Isqrt(n) == IsqrtBetween(n, 0, 46340)

----------------------------------------------------------------------------
(* Input sets                                                               *)

Some(i) == <<i>>
None == <<>>

\* bool(request.product_id): None and 0 are falsy
Truthy(opt) == opt # None /\ opt[1] # 0

D1 == <<2024, 2, 26>>
D2 == <<2024, 2, 27>>
D4 == <<2024, 2, 29>>
D5 == <<2024, 12, 31>>

\* transaction_date values: two of them fall on the same calendar day
TxTimes ==
    { [date |-> D1, hour |-> 23], [date |-> D2, hour |-> 0],
      [date |-> D2, hour |-> 12], [date |-> D4, hour |-> 12] }

TxAmounts == {-4, 6}            \* total_price is an unconstrained float
ExistingProducts == {1, 2}
ProductIdInputs == {None, Some(0), Some(1), Some(2), Some(3)}

TxUniverse ==
    [product_id : ExistingProducts, total_price : TxAmounts,
     transaction_date : TxTimes]

Tables == {T \in SUBSET TxUniverse : Cardinality(T) <= MaxTx}

PeriodsInRange == PeriodsMin .. MaxPeriods
ConfidenceInRange == {50, 90, 95, 99}
PeriodsInputs == PeriodsInRange \cup {0, PeriodsMax + 1}
ConfidenceInputs == ConfidenceInRange \cup {30, 100}

\* exceptions the statsmodels import, fit or forecast may raise
ExceptionKinds ==
    {"ImportError", "ValueError", "RuntimeError", "TypeError", "ZeroDivisionError"}

\* raw model outputs (milli): predicted mean m at every step, native
\* interval [m - w*i, m + w*i] at step i
RawMeans == {-2505, 1234}
RawWidths == {0, 1500}
RawAic == {12345}
RawBic == {23456}

\* histories handed directly to generate_arima_forecast: any order of
\* points with pairwise distinct dates
HistDates == {D1, D2, D4, D5}
HistValues == {-4, 6}
HistPoints == [date : HistDates, value : HistValues]

DistinctDates(h) ==
    \A i, j \in 1 .. Len(h) : i # j => h[i].date # h[j].date

CoreHistories ==
    UNION { {h \in [1 .. n -> HistPoints] : DistinctDates(h)} : n \in 0 .. MaxHist }

\* longer histories: n consecutive days from D1, value a on the days before
\* the last seven and b on the last seven, supplied in date order or reversed
LongLengths == 8 .. MaxLong

LongHistory(n, a, b, reversed) ==
    [i \in 1 .. n |->
        LET k == IF reversed THEN n + 1 - i ELSE i
        IN  [date  |-> Strftime(ToOrdinal(D1) + k - 1),
             value |-> IF k <= n - 7 THEN a ELSE b]]

LongHistories ==
    {LongHistory(n, a, b, reversed) :
        n \in LongLengths, a \in HistValues, b \in HistValues, reversed \in BOOLEAN}

\* confidence levels handed directly to the core: also just below each
\* breakpoint of the z-score table
CoreConfidenceInputs == ConfidenceInputs \cup {89, 94, 98}

----------------------------------------------------------------------------
(* generate_forecast: the aggregation query                                 *)

\* ORDER BY func.date(...) ASC compares calendar days
DateLess(a, b) ==
    \/ a[1] < b[1]
    \/ a[1] = b[1] /\ a[2] < b[2]
    \/ a[1] = b[1] /\ a[2] = b[2] /\ a[3] < b[3]

RECURSIVE SumPrices(_)
SumPrices(rows) ==
    IF rows = {} THEN 0
    ELSE LET r == CHOOSE x \in rows : TRUE
         IN  r.total_price + SumPrices(rows \ {r})

RECURSIVE OrderAsc(_)
OrderAsc(dates) ==
    IF dates = {} THEN <<>>
    ELSE LET d == CHOOSE x \in dates : \A y \in dates : x = y \/ DateLess(x, y)
         IN  <<d>> \o OrderAsc(dates \ {d})

\* query.filter(Transaction.product_id == request.product_id), applied only
\* under "if request.product_id:"
FilteredRows(rows, product_id) ==
    IF Truthy(product_id) THEN {r \in rows : r.product_id = product_id[1]}
    ELSE rows

\* SELECT date(transaction_date), sum(total_price) ... GROUP BY date ORDER BY date
QueryResults(rows, product_id) ==
    LET scope == FilteredRows(rows, product_id)
        days == OrderAsc({SqlDate(r.transaction_date) : r \in scope})
    IN  [i \in 1 .. Len(days) |->
            [date |-> days[i],
             value |-> SumPrices({r \in scope : SqlDate(r.transaction_date) = days[i]})]]

----------------------------------------------------------------------------
(* generate_arima_forecast: pure parts                                      *)

RECURSIVE InsertByDate(_, _)
InsertByDate(sorted, p) ==
    IF sorted = <<>> THEN <<p>>
    ELSE IF ToOrdinal(p.date) < ToOrdinal(Head(sorted).date)
         THEN <<p>> \o sorted
         ELSE <<Head(sorted)>> \o InsertByDate(Tail(sorted), p)

RECURSIVE SortIndex(_)
\* df.set_index('date').sort_index()
SortIndex(h) ==
    IF h = <<>> THEN <<>>
    ELSE InsertByDate(SortIndex(SubSeq(h, 1, Len(h) - 1)), h[Len(h)])

\* df['value'].values
Values(h) == LET df == SortIndex(h) IN [i \in 1 .. Len(df) |-> df[i].value]

\* variant: the last row as supplied, without sort_index()
LastDateUnsorted(h) == ToOrdinal(h[Len(h)].date)

\* df.index[-1], as a day ordinal
LastDate(h) == LET df == SortIndex(h) IN ToOrdinal(df[Len(df)].date)

\* variant: a range that stops one period short
ForecastDatesShort(h, periods) ==
    [i \in 1 .. (Max0(periods) - 1) |-> LastDate(h) + 1 + (i - 1)]

\* pd.date_range(start=last_date + timedelta(days=1), periods=periods, freq='D')
ForecastDates(h, periods) ==
    [i \in 1 .. Max0(periods) |-> LastDate(h) + 1 + (i - 1)]

\* variant: "len(values) > 10"
OrderStrict(n) == IF n > DiffThreshold THEN <<1, 1, 1>> ELSE <<1, 0, 1>>

Order(n) == IF n >= DiffThreshold THEN <<1, 1, 1>> ELSE <<1, 0, 1>>

\* "except (ImportError, ValueError, RuntimeError)"
Caught(exc) == exc \in {"ImportError", "ValueError", "RuntimeError"}

\* forecast_result.predicted_mean[i] of the fitted model, in milli
PredictedMean(f, i) == f.mean

\* forecast_result.conf_int(alpha=alpha)[i, :]: <<lower, upper>>, in milli
ConfInt(f, i) == <<f.mean - f.width * i, f.mean + f.width * i>>

\* variant: upper_bound clamped like the other two fields
PrimaryPointClamped(f, dates, i) ==
    [date            |-> Strftime(dates[i]),
     predicted_value |-> Round2(Max0(PredictedMean(f, i))),
     lower_bound     |-> Round2(Max0(ConfInt(f, i)[1])),
     upper_bound     |-> Round2(Max0(ConfInt(f, i)[2]))]

\* the loop of the try branch; i is the 1-based position (enumerate index + 1)
PrimaryPoint(f, dates, i) ==
    [date            |-> Strftime(dates[i]),
     predicted_value |-> Round2(Max0(PredictedMean(f, i))),
     lower_bound     |-> Round2(Max0(ConfInt(f, i)[1])),
     upper_bound     |-> Round2(ConfInt(f, i)[2])]

PrimaryForecast(f, h, periods) ==
    LET dates == ForecastDates(h, periods)
    IN  [i \in 1 .. Len(dates) |-> PrimaryPoint(f, dates, i)]

PrimaryMetrics(f, h) ==
    [model_type  |-> "ARIMA",
     order       |-> f.order,
     aic         |-> Round2(f.aic),
     bic         |-> Round2(f.bic),
     data_points |-> Len(Values(h))]

Window(v) == Min(MaWindow, Len(v))

\* np.convolve(values, np.ones(window)/window, mode='valid'), in milli
MovingAverage(v) ==
    LET w == Window(v)
    IN  [k \in 1 .. (Len(v) - w + 1) |->
            (1000 * SumSeq(SubSeq(v, k, k + w - 1))) \div w]

\* np.mean(values), in milli
Mean(v) == (1000 * SumSeq(v)) \div Len(v)

\* variant: ma[0], the first window, instead of ma[-1]
BaseForecastFirst(v) ==
    LET ma == MovingAverage(v)
    IN  IF Len(ma) > 0 THEN ma[1] ELSE Mean(v)

BaseForecast(v) ==
    LET ma == MovingAverage(v)
    IN  IF Len(ma) > 0 THEN ma[Len(ma)] ELSE Mean(v)

\* variant: np.std(values, ddof=1), the sample standard deviation
StdDevSample(v) ==
    IF Len(v) > 1
    THEN LET n == Len(v)
             s == SumSeq(v)
         IN  Isqrt(((n * SumSquares(v) - s * s) * 10000) \div (n * (n - 1)))
    ELSE 0

\* np.std(values) (ddof = 0) if len(values) > 1 else 0, in centi
StdDev(v) ==
    IF Len(v) > 1
    THEN LET n == Len(v)
             s == SumSeq(v)
         IN  Isqrt((n * SumSquares(v) - s * s) * 10000) \div n
    ELSE 0

\* variant: "confidence_level > 0.95"
ZScoreStrict(cl) ==
    IF cl >= 99 THEN 2576
    ELSE IF cl > 95 THEN 1960
    ELSE IF cl >= 90 THEN 1645
    ELSE 1280

\* variant: the entries of the 0.95 and 0.90 rows exchanged
ZScoreSwapped(cl) ==
    IF cl >= 99 THEN 2576
    ELSE IF cl >= 95 THEN 1645
    ELSE IF cl >= 90 THEN 1960
    ELSE 1280

\* the z-score table, in milli
ZScore(cl) ==
    IF cl >= 99 THEN 2576
    ELSE IF cl >= 95 THEN 1960
    ELSE IF cl >= 90 THEN 1645
    ELSE 1280

\* variant: the growth factor counted from step 1
MarginOneBased(fb, i) == (fb.z_score * fb.std_dev * (10 + i + 1)) \div 1000

\* variant: uncertainty shrinking with the step
MarginShrinking(fb, i) == (fb.z_score * fb.std_dev * (10 - i)) \div 1000

\* margin = z_score * std_dev * (1 + i * 0.1), in milli; i is 0-based
Margin(fb, i) == (fb.z_score * fb.std_dev * (10 + i)) \div 1000

\* variant: lower_bound without max(0, ...)
FallbackPointUnclamped(fb, dates, i) ==
    [date            |-> Strftime(dates[i]),
     predicted_value |-> Round2(Max0(fb.base_forecast)),
     lower_bound     |-> Round2(fb.base_forecast - Margin(fb, i - 1)),
     upper_bound     |-> Round2(fb.base_forecast + Margin(fb, i - 1))]

\* the loop of the except branch; i is the 1-based position
FallbackPoint(fb, dates, i) ==
    [date            |-> Strftime(dates[i]),
     predicted_value |-> Round2(Max0(fb.base_forecast)),
     lower_bound     |-> Round2(Max0(fb.base_forecast - Margin(fb, i - 1))),
     upper_bound     |-> Round2(fb.base_forecast + Margin(fb, i - 1))]

FallbackForecast(fb, h, periods) ==
    LET dates == ForecastDates(h, periods)
    IN  [i \in 1 .. Len(dates) |-> FallbackPoint(fb, dates, i)]

\* variant: the fallback result labelled like the primary one
FallbackMetricsAsArima(fb, h) ==
    [model_type  |-> "ARIMA",
     window_size |-> fb.window,
     data_points |-> Len(Values(h)),
     note        |-> "Using simplified forecast due to limited data or dependencies"]

FallbackMetrics(fb, h) ==
    [model_type  |-> "Moving Average (Fallback)",
     window_size |-> fb.window,
     data_points |-> Len(Values(h)),
     note        |-> "Using simplified forecast due to limited data or dependencies"]

----------------------------------------------------------------------------
(* State machine                                                            *)

NoFit == [status |-> "none"]
NoFallback == [window |-> 0]
NoRequest == [product_id |-> None, periods |-> 0, confidence_level |-> 0]

InitialProducts == [p \in ExistingProducts |-> 10]

NoResponse == [op |-> "none"]

\* a dict / defaultdict with no key
EmptyDict == [k \in {} |-> <<>>]

\* a deployment with TESTING unset
ProductionEnv == [TESTING |-> None, DATABASE_URL |-> "sqlite"]

\* RateLimitMiddleware before its first dispatch
LimiterIdle ==
    /\ limiter = [requests_limit |-> 1, window_seconds |-> 1, requests |-> EmptyDict]
    /\ dispatched = <<>>

\* the metrics of metrics.py before the first request
NoMetrics ==
    [ACTIVE_REQUESTS |-> 0, REQUEST_COUNT |-> 0, ERROR_COUNT |-> 0,
     SERVER_ERROR_COUNT |-> 0, REQUEST_LATENCY |-> 0]

MetricsIdle ==
    /\ registry = NoMetrics
    /\ inflight = EmptyDict

\* Base.metadata.create_all: the tables of users and forecasts, empty
TablesIdle ==
    /\ users = {}
    /\ forecasts = {}
    /\ removed = {}
    /\ last_id = [users |-> 0, sales_forecasts |-> 0, transactions |-> 0]
    /\ sessions = EmptyDict

\* the services around the forecasting flow at start-up, untouched
BackendIdle ==
    /\ environ = ProductionEnv
    /\ clock = 0
    /\ response = NoResponse
    /\ LimiterIdle
    /\ MetricsIdle
    /\ TablesIdle

\* the locals of an invocation that has not started
IdleLocals ==
    [pc |-> "Idle", entry |-> "http", request |-> NoRequest,
     historical_data |-> <<>>, fit |-> NoFit, fallback |-> NoFallback,
     forecast_data |-> <<>>, metrics |-> <<>>, status |-> "pending"]

\* the locals of the invocation that is running
Locals ==
    [pc |-> pc, entry |-> entry, request |-> request,
     historical_data |-> historical_data, fit |-> fit, fallback |-> fallback,
     forecast_data |-> forecast_data, metrics |-> metrics, status |-> status]

\* no forecast request in flight
ForecastingIdle ==
    /\ pc = "Idle"
    /\ entry = "http"
    /\ request = NoRequest
    /\ historical_data = <<>>
    /\ fit = NoFit
    /\ fallback = NoFallback
    /\ forecast_data = <<>>
    /\ metrics = <<>>
    /\ status = "pending"
    /\ other = IdleLocals

\* the server with some transactions recorded, no forecast request in flight
Init ==
    /\ transactions \in Tables
    /\ products = InitialProducts
    /\ pc = "Idle"
    /\ entry = "http"
    /\ request = NoRequest
    /\ historical_data = <<>>
    /\ fit = NoFit
    /\ fallback = NoFallback
    /\ forecast_data = <<>>
    /\ metrics = <<>>
    /\ status = "pending"
    /\ other = IdleLocals
    /\ BackendIdle

\* a direct call generate_arima_forecast(historical_data, periods, confidence_level)
InitCore ==
    /\ transactions = {}
    /\ products = InitialProducts
    /\ pc = "Aggregated"
    /\ entry = "core"
    /\ request \in [product_id : {None}, periods : PeriodsInputs \ {PeriodsMax + 1},
                     confidence_level : CoreConfidenceInputs]
    /\ historical_data \in CoreHistories \cup LongHistories
    /\ fit = NoFit
    /\ fallback = NoFallback
    /\ forecast_data = <<>>
    /\ metrics = <<>>
    /\ status = "pending"
    /\ other = IdleLocals
    /\ BackendIdle

\* ARIMAForecastRequest: Field(ge=1, le=365), Field(ge=0.5, le=0.99)
ValidRequest(periods, cl) ==
    /\ periods >= PeriodsMin /\ periods <= PeriodsMax
    /\ cl >= ConfidenceMin /\ cl <= ConfidenceMax

\* POST /api/forecasting/arima arrives; FastAPI validates the body against
\* the schema before the handler runs (422 otherwise)
ReceiveRequest(product_id, periods, cl) ==
    /\ pc = "Idle"
    /\ request' = [product_id |-> product_id, periods |-> periods,
                   confidence_level |-> cl]
    /\ IF ValidRequest(periods, cl)
       THEN pc' = "Requested" /\ status' = "pending"
       ELSE pc' = "Failed" /\ status' = "422 validation error"
    /\ UNCHANGED <<backend, other, transactions, products, entry, historical_data, fit,
                   fallback, forecast_data, metrics>>

\* generate_forecast up to the construction of historical_data
Aggregate ==
    /\ pc = "Requested"
    /\ IF Truthy(request.product_id) /\ request.product_id[1] \notin DOMAIN products
       THEN /\ pc' = "Failed"
            /\ status' = "404 Product not found"
            /\ UNCHANGED historical_data
       ELSE LET results == QueryResults(transactions, request.product_id)
            IN  IF results = <<>>
                THEN /\ pc' = "Failed"
                     /\ status' = "400 Insufficient historical data"
                     /\ UNCHANGED historical_data
                ELSE /\ pc' = "Aggregated"
                     /\ historical_data' = results
                     /\ UNCHANGED status
    /\ UNCHANGED <<backend, other, transactions, products, entry, request, fit, fallback,
                   forecast_data, metrics>>

\* "if not historical_data or len(historical_data) < 3: return [], {}" and,
\* in the endpoint, "if not forecast_data: raise HTTPException(400, ...)"
ReturnEmpty ==
    /\ pc = "Aggregated"
    /\ Len(historical_data) < MinDataPoints
    /\ pc' = "Failed"
    /\ status' = IF entry = "http" THEN "400 Need more historical data"
                  ELSE "returned empty"
    /\ UNCHANGED <<backend, other, transactions, products, entry, request, historical_data,
                   fit, fallback, forecast_data, metrics>>

\* the try branch up to conf_int: the model is fitted and forecasts
PrimaryFitOk(m, w, a, b) ==
    /\ pc = "Aggregated"
    /\ Len(historical_data) >= MinDataPoints
    /\ pc' = "PrimaryFit"
    /\ fit' = [status |-> "ok", order |-> Order(Len(Values(historical_data))),
               steps |-> request.periods,
               alpha |-> 100 - request.confidence_level,
               mean |-> m, width |-> w, aic |-> a, bic |-> b]
    /\ UNCHANGED <<backend, other, transactions, products, entry, request, historical_data,
                   fallback, forecast_data, metrics, status>>

\* the try branch raises exc: the except clause takes it or it propagates
PrimaryFitRaises(exc) ==
    /\ pc = "Aggregated"
    /\ Len(historical_data) >= MinDataPoints
    /\ fit' = [status |-> exc]
    /\ IF Caught(exc)
       THEN pc' = "PrimaryFitFailed" /\ UNCHANGED status
       ELSE /\ pc' = "Failed"
            /\ status' = IF entry = "http" THEN "500 Internal Server Error"
                          ELSE "raised"
    /\ UNCHANGED <<backend, other, transactions, products, entry, request, historical_data,
                   fallback, forecast_data, metrics>>

\* the try branch: forecast dates and the loop building forecast_data
PrimaryIntervals ==
    /\ pc = "PrimaryFit"
    /\ pc' = "IntervalsComputed"
    /\ forecast_data' = PrimaryForecast(fit, historical_data, request.periods)
    /\ UNCHANGED <<backend, other, transactions, products, entry, request, historical_data,
                   fit, fallback, metrics, status>>

\* the except branch: window, moving average, std_dev, z_score
RunFallback ==
    /\ pc = "PrimaryFitFailed"
    /\ pc' = "Fallback"
    /\ fallback' = LET v == Values(historical_data)
                   IN  [window        |-> Window(v),
                        base_forecast |-> BaseForecast(v),
                        std_dev       |-> StdDev(v),
                        z_score       |-> ZScore(request.confidence_level)]
    /\ UNCHANGED <<backend, other, transactions, products, entry, request, historical_data,
                   fit, forecast_data, metrics, status>>

\* the except branch: forecast dates and the loop building forecast_data
FallbackIntervals ==
    /\ pc = "Fallback"
    /\ pc' = "IntervalsComputed"
    /\ forecast_data' = FallbackForecast(fallback, historical_data, request.periods)
    /\ UNCHANGED <<backend, other, transactions, products, entry, request, historical_data,
                   fit, fallback, metrics, status>>

\* metrics and "return forecast_data, metrics"; in the endpoint the check
\* "if not forecast_data" and the ARIMAForecastResponse
Assemble ==
    /\ pc = "IntervalsComputed"
    /\ metrics' = IF fit.status = "ok" THEN PrimaryMetrics(fit, historical_data)
                   ELSE FallbackMetrics(fallback, historical_data)
    /\ IF entry = "http" /\ forecast_data = <<>>
       THEN pc' = "Failed" /\ status' = "400 Need more historical data"
       ELSE /\ pc' = "Assembled"
            /\ status' = IF entry = "http" THEN "200 OK" ELSE "returned"
    /\ UNCHANGED <<backend, other, transactions, products, entry, request, historical_data,
                   fit, fallback, forecast_data>>

CoreNext ==
    \/ ReturnEmpty
    \/ \E m \in RawMeans, w \in RawWidths, a \in RawAic, b \in RawBic :
          PrimaryFitOk(m, w, a, b)
    \/ \E exc \in ExceptionKinds : PrimaryFitRaises(exc)
    \/ PrimaryIntervals
    \/ RunFallback
    \/ FallbackIntervals
    \/ Assemble

Next ==
    \/ \E product_id \in ProductIdInputs, periods \in PeriodsInputs,
          cl \in ConfidenceInputs : ReceiveRequest(product_id, periods, cl)
    \/ Aggregate
    \/ CoreNext

Spec == Init /\ [][Next]_vars

\* variant: the locals of the except branch kept in one place shared by all
\* invocations (module-level state) instead of the function's frame
SwitchSharedFallback ==
    /\ other' = Locals
    /\ pc' = other.pc
    /\ entry' = other.entry
    /\ request' = other.request
    /\ historical_data' = other.historical_data
    /\ fit' = other.fit
    /\ fallback' = fallback
    /\ forecast_data' = other.forecast_data
    /\ metrics' = other.metrics
    /\ status' = other.status
    /\ UNCHANGED <<backend, transactions, products>>

\* the endpoint is a plain "def": each request runs in its own worker thread
\* with its own frame and its own database session; the scheduler may
\* suspend the running invocation at any step and resume the other one
Switch ==
    /\ other' = Locals
    /\ pc' = other.pc
    /\ entry' = other.entry
    /\ request' = other.request
    /\ historical_data' = other.historical_data
    /\ fit' = other.fit
    /\ fallback' = other.fallback
    /\ forecast_data' = other.forecast_data
    /\ metrics' = other.metrics
    /\ status' = other.status
    /\ UNCHANGED <<backend, transactions, products>>

\* tables for two concurrent requests: transactions on three days, the one
\* of the last day of either product and either amount
ConcTables ==
    {T \in Tables :
        /\ Cardinality(T) = 3
        /\ {r.transaction_date.date : r \in T} = {D1, D2, D4}
        /\ \A r \in T : r.transaction_date.hour # 0
        /\ \A r \in T : (r.transaction_date.date # D4)
                             => (r.product_id = 1 /\ r.total_price = 6)}

ConcProductIds == {None, Some(1)}
ConcConfidence == {90, 99}

InitConc ==
    /\ transactions \in ConcTables
    /\ products = InitialProducts
    /\ pc = "Idle"
    /\ entry = "http"
    /\ request = NoRequest
    /\ historical_data = <<>>
    /\ fit = NoFit
    /\ fallback = NoFallback
    /\ forecast_data = <<>>
    /\ metrics = <<>>
    /\ status = "pending"
    /\ other = IdleLocals
    /\ BackendIdle

NextConc ==
    \/ \E product_id \in ConcProductIds, cl \in ConcConfidence :
          ReceiveRequest(product_id, MaxPeriods, cl)
    \/ Aggregate
    \/ CoreNext
    \/ Switch

SpecConc == InitConc /\ [][NextConc]_vars

SpecCore == InitCore /\ [][CoreNext]_vars

----------------------------------------------------------------------------
(* Vocabulary of the properties                                             *)

Produced == pc \in {"IntervalsComputed", "Assembled"}

Points == {forecast_data[i] : i \in 1 .. Len(forecast_data)}

RequestInBounds ==
    /\ request.periods \in 1 .. 365
    /\ request.confidence_level \in 50 .. 99

\* the calendar successor of a day, computed on the date itself
NextDay(date) ==
    IF date[3] < DaysInMonth(date[1], date[2]) THEN <<date[1], date[2], date[3] + 1>>
    ELSE IF date[2] < 12 THEN <<date[1], date[2] + 1, 1>>
    ELSE <<date[1] + 1, 1, 1>>

\* the latest date among the points of a history, whatever their order
LatestDate(h) ==
    CHOOSE d \in {h[i].date : i \in 1 .. Len(h)} :
        \A i \in 1 .. Len(h) : h[i].date = d \/ DateLess(h[i].date, d)

\* the earliest date among the points of a history
EarliestDate(h) ==
    CHOOSE d \in {h[i].date : i \in 1 .. Len(h)} :
        \A i \in 1 .. Len(h) : h[i].date = d \/ DateLess(d, h[i].date)

\* the transactions a request is about: those of the requested product, or
\* all of them when no product is given
RequestedRows ==
    IF request.product_id = None THEN transactions
    ELSE {r \in transactions : r.product_id = request.product_id[1]}

\* the endpoint got past the product lookup and ran the query
Queried == entry = "http" /\ pc \notin {"Idle", "Requested"}
           /\ status \notin {"422 validation error", "404 Product not found"}

----------------------------------------------------------------------------
(* C1.  With at least 3 points (and in-range parameters), a failure raised *)
(* by the primary model, whatever its exception type, is never propagated   *)
(* to the caller: the fallback estimator takes over.                        *)
C1_FitFailureNeverPropagates ==
    (Len(historical_data) >= 3 /\ RequestInBounds /\ fit.status \notin {"none", "ok"})
        => /\ pc \in {"PrimaryFitFailed", "Fallback", "IntervalsComputed", "Assembled"}
           /\ status \notin {"raised", "500 Internal Server Error"}

(* C2.  For in-range horizon and confidence level, every forecast point    *)
(* produced by either path has lower_bound <= predicted_value <= upper_bound. *)
C2_BoundsBracketPrediction ==
    (Produced /\ RequestInBounds)
        => \A p \in Points : /\ p.lower_bound <= p.predicted_value
                              /\ p.predicted_value <= p.upper_bound

(* C3.  A successful result for a horizon h in 1..365 has exactly h        *)
(* forecast points, on the primary and on the fallback path.                *)
C3_ExactlyHorizonPoints ==
    (Produced /\ request.periods \in 1 .. 365)
        => Len(forecast_data) = request.periods

C3_Witness ==
    /\ pc = "Assembled" /\ fit.status = "ValueError"
    /\ request.periods = 2 /\ Len(forecast_data) = 2

(* C4.  Every forecast point has predicted_value >= 0 and lower_bound >= 0, *)
(* whatever the sign of the history and of the raw model outputs.           *)
C4_NonNegative ==
    Produced => \A p \in Points : p.predicted_value >= 0 /\ p.lower_bound >= 0

C4_Witness ==
    /\ pc = "Assembled" /\ fit.status = "RuntimeError"
    /\ fallback.base_forecast < 0
    /\ Len(forecast_data) >= 1
    /\ forecast_data[1].predicted_value = 0 /\ forecast_data[1].lower_bound = 0

(* C5.  The first forecast date is the day after the latest historical     *)
(* date, whatever the order of the history, and each further forecast date  *)
(* is the next calendar day.                                                *)
C5_ConsecutiveDates ==
    Produced =>
        \A i \in 1 .. Len(forecast_data) :
            forecast_data[i].date =
                NextDay(IF i = 1 THEN LatestDate(historical_data)
                        ELSE forecast_data[i - 1].date)

C5_Witness ==
    /\ pc = "Assembled"
    /\ Len(forecast_data) = 2
    /\ historical_data[Len(historical_data)].date # LatestDate(historical_data)
    /\ LatestDate(historical_data) = D4
    /\ forecast_data[1].date = <<2024, 3, 1>>
    /\ forecast_data[2].date = <<2024, 3, 2>>

(* C6.  A request whose aggregated history has 0, 1 or 2 points fails with *)
(* an insufficient-data error: no forecast point, no fit, no fallback.      *)
C6_InsufficientData ==
    (Queried /\ Len(QueryResults(transactions, request.product_id)) < 3)
        => /\ pc \in {"Aggregated", "Failed"}
           /\ pc = "Failed" => status \in {"400 Insufficient historical data",
                                            "400 Need more historical data"}
           /\ forecast_data = <<>> /\ metrics = <<>>
           /\ fit = NoFit /\ fallback = NoFallback

C6_Witness ==
    /\ pc = "Failed" /\ status = "400 Need more historical data"
    /\ Len(historical_data) = 2
    /\ forecast_data = <<>> /\ fit = NoFit

(* C7.  A request ends in Assembled or in Failed(InsufficientData); Failed *)
(* is reached only before any fitting attempt, so a request with at least   *)
(* 3 historical points always ends in Assembled.                            *)
C7_FailedOnlyBeforeFitting ==
    pc = "Failed" => (fit = NoFit /\ Len(historical_data) < 3)

(* C8.  The core rejects a horizon outside [1, 365] or a confidence level  *)
(* outside [0.5, 0.99] before any fitting and returns no forecast for it.   *)
C8_CoreRejectsInvalidParameters ==
    (entry = "core" /\ ~RequestInBounds)
        => /\ fit = NoFit /\ fallback = NoFallback
           /\ forecast_data = <<>>
           /\ pc \in {"Aggregated", "Failed"}

(* C9.  The historical series that was fitted and is returned has one      *)
(* point for every calendar day between the first and the last transaction  *)
(* date (a day without a transaction appears in it, with value 0).          *)
C9_ContiguousDays ==
    (entry = "http" /\ pc = "Assembled")
        => /\ EarliestDate(historical_data) = historical_data[1].date
           /\ \A i \in 2 .. Len(historical_data) :
                 historical_data[i].date = NextDay(historical_data[i - 1].date)

(* C10.  The aggregated series has strictly increasing dates and the value *)
(* of each date is the sum of the amounts of the requested product's        *)
(* transactions (of all transactions when no product is given) on that day. *)
C10_DailySums ==
    (Queried /\ historical_data # <<>>)
        => /\ \A i \in 2 .. Len(historical_data) :
                 DateLess(historical_data[i - 1].date, historical_data[i].date)
           /\ \A i \in 1 .. Len(historical_data) :
                 historical_data[i].value =
                     SumPrices({r \in RequestedRows :
                                   r.transaction_date.date = historical_data[i].date})

----------------------------------------------------------------------------
(* RateLimitMiddleware (middleware.py): a sliding window per client key     *)

MaxClock == 3        \* the latest second explored
MaxDispatch == 4     \* rate-limited dispatches kept in the history

LimitInputs == {1, 2}       \* requests_limit handed to the constructor
WindowInputs == {2, 3}      \* window_seconds handed to the constructor

ExemptPaths == {"/", "/health", "/docs", "/redoc", "/openapi.json", "/metrics"}
PathInputs == {"/health", "/api/products/"}

\* X-Forwarded-For: absent, the empty string, or a list of entries
ForwardedInputs == {None, <<"">>, <<" A", "B">>}
\* request.client: absent, or a peer with a host
ClientInputs == {None, Some("B")}
ClientKeys == {"A", "B", "unknown"}

\* str.strip() on the header entries of the model
Strip(str) == IF str = " A" THEN "A" ELSE str

\* _get_client_ip: the first X-Forwarded-For entry, else the peer host
GetClientIp(forwarded, client) ==
    IF forwarded # None /\ forwarded # <<"">>
    THEN Strip(forwarded[1])
    ELSE IF client # None THEN client[1] ELSE "unknown"

\* self.requests[client_ip] of the defaultdict(list)
Requests(key) ==
    IF key \in DOMAIN limiter.requests THEN limiter.requests[key] ELSE <<>>

\* self.requests[client_ip] = value
Store(dict, key, value) ==
    [k \in DOMAIN dict \cup {key} |-> IF k = key THEN value ELSE dict[k]]

\* variant: "current_time - req_time <= self.window_seconds"
RecentInclusive(times, now, window) ==
    SelectSeq(times, LAMBDA req_time : now - req_time <= window)

\* the timestamps kept: current_time - req_time < self.window_seconds
Recent(times, now, window) ==
    SelectSeq(times, LAMBDA req_time : now - req_time < window)

\* variant: "len(self.requests[client_ip]) > self.requests_limit"
LimitReachedStrict(times, requests_limit) == Len(times) > requests_limit

\* len(self.requests[client_ip]) >= self.requests_limit
LimitReached(times, requests_limit) == Len(times) >= requests_limit

TooManyRequests ==
    [op |-> "dispatch", status_code |-> 429,
     detail |-> "Rate limit exceeded. Please try again later.",
     retry_after |-> limiter.window_seconds]

\* the downstream response with the X-RateLimit-* headers
Limited(times) ==
    [op |-> "dispatch", status_code |-> 200,
     limit |-> limiter.requests_limit,
     remaining |-> limiter.requests_limit - Len(times),
     reset |-> clock + limiter.window_seconds]

\* the downstream response of a request that was not rate limited
Passed == [op |-> "dispatch", status_code |-> 200]

\* RateLimitMiddleware.dispatch for one request; the history keeps, for
\* every request to a non-exempt path, its client key, its time and its answer
RateLimitDispatch(path, forwarded, client) ==
    LET key == GetClientIp(forwarded, client)
        times == Recent(Requests(key), clock, limiter.window_seconds)
        seen(code) == Append(dispatched,
                             [key |-> key, time |-> clock, status_code |-> code])
    IN  /\ Len(dispatched) < MaxDispatch
        /\ IF path \in ExemptPaths
           THEN /\ response' = Passed
                /\ UNCHANGED <<limiter, dispatched>>
           ELSE IF environ.TESTING # None
           THEN /\ response' = Passed
                /\ dispatched' = seen(200)
                /\ UNCHANGED limiter
           ELSE IF LimitReached(times, limiter.requests_limit)
           THEN /\ response' = TooManyRequests
                /\ limiter' = [limiter EXCEPT !.requests = Store(@, key, times)]
                /\ dispatched' = seen(429)
           ELSE /\ response' = Limited(Append(times, clock))
                /\ limiter' = [limiter EXCEPT
                                  !.requests = Store(@, key, Append(times, clock))]
                /\ dispatched' = seen(200)
        /\ UNCHANGED <<forecasting, transactions, products, environ, clock,
                       registry, inflight, users, forecasts, removed, last_id,
                       sessions>>

\* a second passes
Tick ==
    /\ clock < MaxClock
    /\ clock' = clock + 1
    /\ UNCHANGED <<forecasting, transactions, products, environ, response,
                   limiter, dispatched, registry, inflight, users, forecasts,
                   removed, last_id, sessions>>

\* a server whose limiter was built with some limit and window, with or
\* without TESTING in its environment
InitRate ==
    /\ ForecastingIdle
    /\ transactions = {}
    /\ products = InitialProducts
    /\ environ \in [TESTING : {None, Some("1")}, DATABASE_URL : {"sqlite"}]
    /\ clock = 0
    /\ response = NoResponse
    /\ limiter \in [requests_limit : LimitInputs, window_seconds : WindowInputs,
                    requests : {EmptyDict}]
    /\ dispatched = <<>>
    /\ MetricsIdle
    /\ TablesIdle

NextRate ==
    \/ Tick
    \/ \E path \in PathInputs, forwarded \in ForwardedInputs,
          client \in ClientInputs : RateLimitDispatch(path, forwarded, client)

SpecRate == InitRate /\ [][NextRate]_vars

----------------------------------------------------------------------------
(* MetricsMiddleware (metrics.py).  A counter or histogram is kept as the   *)
(* total over its label values.                                             *)

MaxInflight == 3     \* requests that enter the middleware

MetricsPaths == {"/metrics", "/api/products/7"}
StatusInputs == {200, 404, 500}

\* the try block after call_next has returned a response
Recorded(reg, status_code) ==
    [reg EXCEPT !.REQUEST_COUNT = @ + 1,
                !.ERROR_COUNT = IF status_code >= 400 THEN @ + 1 ELSE @,
                !.SERVER_ERROR_COUNT = IF status_code >= 500 THEN @ + 1 ELSE @]

\* the finally block: the latency is observed, the gauge decremented
Finally(reg) ==
    [reg EXCEPT !.REQUEST_LATENCY = @ + 1, !.ACTIVE_REQUESTS = @ - 1]

\* variant: the decrement written after the try block, without "finally"
UnwoundPastDec(reg) == reg

\* call_next raised (or the task was cancelled): the exception unwinds
\* through the finally block
Unwound(reg) == Finally(reg)

\* dispatch up to "await call_next(request)"
MetricsEnter(r, path) ==
    /\ r \notin DOMAIN inflight
    /\ IF path = "/metrics"
       THEN /\ inflight' = Store(inflight, r, [path |-> path, at |-> "passing"])
            /\ UNCHANGED registry
       ELSE /\ inflight' = Store(inflight, r, [path |-> path, at |-> "handling"])
            /\ registry' = [registry EXCEPT !.ACTIVE_REQUESTS = @ + 1]
    /\ UNCHANGED <<forecasting, transactions, products, environ, clock, response,
                   limiter, dispatched, users, forecasts, removed, last_id,
                   sessions>>

\* call_next returns a response: the rest of dispatch
MetricsReturn(r, status_code) ==
    /\ r \in DOMAIN inflight
    /\ inflight[r].at \in {"passing", "handling"}
    /\ inflight' = [inflight EXCEPT ![r].at = "returned"]
    /\ registry' = IF inflight[r].at = "handling"
                   THEN Finally(Recorded(registry, status_code))
                   ELSE registry
    /\ UNCHANGED <<forecasting, transactions, products, environ, clock, response,
                   limiter, dispatched, users, forecasts, removed, last_id,
                   sessions>>

\* call_next raises: the exception leaves dispatch
MetricsRaise(r) ==
    /\ r \in DOMAIN inflight
    /\ inflight[r].at \in {"passing", "handling"}
    /\ inflight' = [inflight EXCEPT ![r].at = "raised"]
    /\ registry' = IF inflight[r].at = "handling" THEN Unwound(registry)
                   ELSE registry
    /\ UNCHANGED <<forecasting, transactions, products, environ, clock, response,
                   limiter, dispatched, users, forecasts, removed, last_id,
                   sessions>>

InitMetrics ==
    /\ ForecastingIdle
    /\ transactions = {}
    /\ products = InitialProducts
    /\ BackendIdle

NextMetrics ==
    \/ \E r \in 1 .. MaxInflight, path \in MetricsPaths : MetricsEnter(r, path)
    \/ \E r \in 1 .. MaxInflight, status_code \in StatusInputs :
          MetricsReturn(r, status_code)
    \/ \E r \in 1 .. MaxInflight : MetricsRaise(r)

SpecMetrics == InitMetrics /\ [][NextMetrics]_vars

----------------------------------------------------------------------------
(* Users (routes/auth.py).  A row of the users table keeps id, username,    *)
(* email and role; every account is active.  The caller of an              *)
(* authenticated endpoint is the stored user its token names.               *)

MaxUsers == 3        \* the highest user id handed out

Usernames == {"ann", "bob"}
Emails == {"ann@x.io", "bob@x.io"}
RoleInputs == {None, Some("admin")}      \* UserCreate.role / UserUpdate.role
UserCreates == [username : Usernames, email : Emails, role : RoleInputs]
UserUpdates ==
    [username : {None} \cup {Some(u) : u \in Usernames},
     email : {None} \cup {Some(e) : e \in Emails},
     role : RoleInputs]
UserIdInputs == 1 .. MaxUsers + 1

Largest(ids) == CHOOSE i \in ids : \A j \in ids : j <= i

\* the id the database gives a new row: SQLite takes the largest id of the
\* table plus one (an INTEGER PRIMARY KEY without AUTOINCREMENT), PostgreSQL
\* the next value of the column's sequence
NewId(ids, table) ==
    IF environ.DATABASE_URL = "sqlite"
    THEN IF ids = {} THEN 1 ELSE Largest(ids) + 1
    ELSE last_id[table] + 1

\* db.query(...).filter(...).first()
First(rows) == IF rows = {} THEN None ELSE Some(CHOOSE row \in rows : TRUE)

get_user_by_username(username) == First({u \in users : u.username = username})

get_user_by_email(email) == First({u \in users : u.email = email})

\* Depends(require_admin): the 403 of a caller who is not an admin
require_admin(current_user) == current_user.role = "admin"

BadRequest(call, detail) ==
    [op |-> call.op, call |-> call, status_code |-> 400, detail |-> detail]

NotFound(call, detail) ==
    [op |-> call.op, call |-> call, status_code |-> 404, detail |-> detail]

Forbidden(call) ==
    [op |-> call.op, call |-> call, status_code |-> 403,
     detail |-> "Insufficient permissions"]

Ok(call) == [op |-> call.op, call |-> call, status_code |-> 200, detail |-> ""]

\* "username" in update_data and it differs from the user's and is in use
UsernameTaken(update_data, user) ==
    /\ update_data.username # None
    /\ update_data.username[1] # user.username
    /\ get_user_by_username(update_data.username[1]) # None

\* variant: the email is checked only when the username changes too
EmailTakenWithUsername(update_data, user) ==
    /\ update_data.username # None
    /\ update_data.email # None
    /\ update_data.email[1] # user.email
    /\ get_user_by_email(update_data.email[1]) # None

\* "email" in update_data and it differs from the user's and is in use
EmailTaken(update_data, user) ==
    /\ update_data.email # None
    /\ update_data.email[1] # user.email
    /\ get_user_by_email(update_data.email[1]) # None

\* for key, value in update_data.items(): setattr(user, key, value)
SetAttrs(user, update_data) ==
    [user EXCEPT
        !.username = IF update_data.username # None THEN update_data.username[1] ELSE @,
        !.email = IF update_data.email # None THEN update_data.email[1] ELSE @,
        !.role = IF update_data.role # None THEN update_data.role[1] ELSE @]

\* the checks and the write shared by PUT /me and PUT /users/{user_id}
UpdateStored(call, user, update_data) ==
    IF UsernameTaken(update_data, user)
    THEN response' = BadRequest(call, "Username already taken")
         /\ UNCHANGED users
    ELSE IF EmailTaken(update_data, user)
    THEN response' = BadRequest(call, "Email already registered")
         /\ UNCHANGED users
    ELSE response' = Ok(call)
         /\ users' = (users \ {user}) \cup {SetAttrs(user, update_data)}

\* POST /api/auth/register
register_user(user) ==
    LET call == [op |-> "register_user", body |-> user]
        id == NewId({u.id : u \in users}, "users")
    IN  /\ id <= MaxUsers
        /\ IF get_user_by_username(user.username) # None
           THEN response' = BadRequest(call, "Username already registered")
                /\ UNCHANGED <<users, last_id>>
           ELSE IF get_user_by_email(user.email) # None
           THEN response' = BadRequest(call, "Email already registered")
                /\ UNCHANGED <<users, last_id>>
           ELSE /\ response' = Ok(call)
                /\ users' = users \cup
                      {[id |-> id, username |-> user.username, email |-> user.email,
                        role |-> IF user.role # None THEN user.role[1] ELSE "staff"]}
                /\ last_id' = [last_id EXCEPT !.users = id]
        /\ UNCHANGED <<forecasting, transactions, products, environ, clock,
                       limiter, dispatched, registry, inflight, forecasts,
                       removed, sessions>>

\* Depends(get_current_active_user): the stored user the token names
CurrentUser(caller) == First({u \in users : u.id = caller})

\* PUT /api/auth/me
update_current_user_profile(caller, user_update) ==
    LET call == [op |-> "update_current_user_profile",
                 caller |-> caller, body |-> user_update]
        current_user == CurrentUser(caller)[1]
        update_data == IF current_user.role # "admin"
                       THEN [user_update EXCEPT !.role = None]
                       ELSE user_update
    IN  /\ CurrentUser(caller) # None
        /\ UpdateStored(call, current_user, update_data)
        /\ UNCHANGED <<forecasting, transactions, products, environ, clock,
                       limiter, dispatched, registry, inflight, forecasts,
                       removed, last_id, sessions>>

\* PUT /api/auth/users/{user_id}
update_user(caller, user_id, user_update) ==
    LET call == [op |-> "update_user", caller |-> caller,
                 id |-> user_id, body |-> user_update]
        current_user == CurrentUser(caller)[1]
        user == First({u \in users : u.id = user_id})
    IN  /\ CurrentUser(caller) # None
        /\ IF ~require_admin(current_user)
           THEN response' = Forbidden(call) /\ UNCHANGED users
           ELSE IF user = None
           THEN response' = NotFound(call, "User not found") /\ UNCHANGED users
           ELSE UpdateStored(call, user[1], user_update)
        /\ UNCHANGED <<forecasting, transactions, products, environ, clock,
                       limiter, dispatched, registry, inflight, forecasts,
                       removed, last_id, sessions>>

\* variant: "user.id == current_user.username", an int against a str, which
\* Python never finds equal
IsSelfIdAgainstName(user, current_user) == FALSE

\* user.id == current_user.id
IsSelf(user, current_user) == user.id = current_user.id

\* DELETE /api/auth/users/{user_id}
delete_user(caller, user_id) ==
    LET call == [op |-> "delete_user", caller |-> caller, id |-> user_id]
        current_user == CurrentUser(caller)[1]
        user == First({u \in users : u.id = user_id})
    IN  /\ CurrentUser(caller) # None
        /\ IF ~require_admin(current_user)
           THEN response' = Forbidden(call) /\ UNCHANGED users
           ELSE IF user = None
           THEN response' = NotFound(call, "User not found") /\ UNCHANGED users
           ELSE IF IsSelf(user[1], current_user)
           THEN response' = BadRequest(call, "Cannot delete your own account")
                /\ UNCHANGED users
           ELSE response' = Ok(call) /\ users' = users \ {user[1]}
        /\ UNCHANGED <<forecasting, transactions, products, environ, clock,
                       limiter, dispatched, registry, inflight, forecasts,
                       removed, last_id, sessions>>

\* an empty users table in either kind of database
InitUsers ==
    /\ ForecastingIdle
    /\ transactions = {}
    /\ products = InitialProducts
    /\ environ \in [TESTING : {None}, DATABASE_URL : {"sqlite", "postgresql"}]
    /\ clock = 0
    /\ response = NoResponse
    /\ LimiterIdle
    /\ MetricsIdle
    /\ TablesIdle

NextUsers ==
    \/ \E user \in UserCreates : register_user(user)
    \/ \E caller \in UserIdInputs, user_update \in UserUpdates :
          update_current_user_profile(caller, user_update)
    \/ \E caller \in UserIdInputs, user_id \in UserIdInputs,
          user_update \in UserUpdates :
          update_user(caller, user_id, user_update)
    \/ \E caller \in UserIdInputs, user_id \in UserIdInputs :
          delete_user(caller, user_id)

SpecUsers == InitUsers /\ [][NextUsers]_vars

----------------------------------------------------------------------------
(* Stored forecasts (routes/forecasting.py): CRUD on sales_forecasts and    *)
(* the paginated list.  forecast_date is utcnow at the insert; a second     *)
(* passes with every insert.                                                *)

DEFAULT_PAGE_SIZE == 10     \* settings.DEFAULT_PAGE_SIZE
PageSizeMax == 100          \* Query(None, ge=1, le=100)

ForecastCreates ==
    [product_id : ExistingProducts \cup {3}, forecasted_quantity : {5},
     forecasted_price : {9}]
ForecastUpdates ==
    { [product_id |-> None, forecasted_quantity |-> None, forecasted_price |-> None],
      [product_id |-> None, forecasted_quantity |-> Some(8), forecasted_price |-> None],
      [product_id |-> Some(2), forecasted_quantity |-> None, forecasted_price |-> None] }
ForecastIdInputs == 0 .. MaxClock + 1
PageInputs == 0 .. 3
PageSizeInputs ==
    {None, Some(0), Some(1), Some(2), Some(PageSizeMax), Some(PageSizeMax + 1)}
ForecastFilters == {None, Some(0), Some(1)}

\* variant: "total // page_size", the number of full pages
calculate_pagination_floor(total, page, page_size) ==
    LET total_pages == total \div page_size
    IN  [total |-> total, page |-> page, page_size |-> page_size,
         total_pages |-> total_pages, has_next |-> page < total_pages,
         has_prev |-> page > 1]

calculate_pagination(total, page, page_size) ==
    LET total_pages == (total + page_size - 1) \div page_size
    IN  [total |-> total, page |-> page, page_size |-> page_size,
         total_pages |-> total_pages, has_next |-> page < total_pages,
         has_prev |-> page > 1]

\* query.order_by(desc(SalesForecast.forecast_date)), as a list
RECURSIVE OrderByDateDesc(_)
OrderByDateDesc(rows) ==
    IF rows = {} THEN <<>>
    ELSE LET latest == CHOOSE f \in rows :
                           \A g \in rows : g.forecast_date <= f.forecast_date
         IN  <<latest>> \o OrderByDateDesc(rows \ {latest})

\* .offset(offset).limit(limit).all()
OffsetLimit(list, offset, limit) ==
    SubSeq(list, offset + 1, Min(offset + limit, Len(list)))

\* GET /api/forecasting/sales
get_forecasts(page, page_size, product_id) ==
    LET call == [op |-> "get_forecasts", page |-> page, page_size |-> page_size,
                 product_id |-> product_id]
        size == IF page_size = None THEN DEFAULT_PAGE_SIZE ELSE page_size[1]
        query == IF Truthy(product_id)
                 THEN {f \in forecasts : f.product_id = product_id[1]}
                 ELSE forecasts
        total == Cardinality(query)
        offset == (page - 1) * size
        found == OffsetLimit(OrderByDateDesc(query), offset, size)
    IN  /\ response' =
              IF page < 1 \/ size < 1 \/ size > PageSizeMax
              THEN [op |-> call.op, call |-> call, status_code |-> 422,
                    detail |-> "validation error"]
              ELSE [op |-> call.op, call |-> call, status_code |-> 200,
                    detail |-> "",
                    items |-> [i \in 1 .. Len(found) |-> found[i].id],
                    pagination |-> calculate_pagination(total, page, size)]
        /\ UNCHANGED <<forecasting, transactions, products, environ, clock,
                       limiter, dispatched, registry, inflight, users, forecasts,
                       removed, last_id, sessions>>

\* POST /api/forecasting/sales
create_forecast(forecast) ==
    LET call == [op |-> "create_forecast", body |-> forecast]
        id == NewId({f.id : f \in forecasts}, "sales_forecasts")
    IN  /\ clock < MaxClock
        /\ IF forecast.product_id \notin DOMAIN products
           THEN /\ response' = NotFound(call, "Product not found")
                /\ UNCHANGED <<forecasts, last_id, clock>>
           ELSE /\ response' = Ok(call)
                /\ forecasts' = forecasts \cup
                      {[id |-> id, product_id |-> forecast.product_id,
                        forecasted_quantity |-> forecast.forecasted_quantity,
                        forecasted_price |-> forecast.forecasted_price,
                        forecast_date |-> clock]}
                /\ last_id' = [last_id EXCEPT !.sales_forecasts = id]
                /\ clock' = clock + 1
        /\ UNCHANGED <<forecasting, transactions, products, environ, limiter,
                       dispatched, registry, inflight, users, removed, sessions>>

\* variant: the filter written on the wrong column,
\* "SalesForecast.product_id == forecast_id"
ForecastByProduct(forecast_id) ==
    First({f \in forecasts : f.product_id = forecast_id})

\* db.query(SalesForecast).filter(SalesForecast.id == forecast_id).first()
ForecastById(forecast_id) == First({f \in forecasts : f.id = forecast_id})

\* GET /api/forecasting/sales/{forecast_id}
get_forecast(forecast_id) ==
    LET call == [op |-> "get_forecast", id |-> forecast_id]
    IN  /\ response' = IF ForecastById(forecast_id) = None
                       THEN NotFound(call, "Forecast not found")
                       ELSE Ok(call)
        /\ UNCHANGED <<forecasting, transactions, products, environ, clock,
                       limiter, dispatched, registry, inflight, users, forecasts,
                       removed, last_id, sessions>>

\* PUT /api/forecasting/sales/{forecast_id}
update_forecast(forecast_id, forecast) ==
    LET call == [op |-> "update_forecast", id |-> forecast_id, body |-> forecast]
        db_forecast == ForecastById(forecast_id)
        set(old, new) == IF new # None THEN new[1] ELSE old
    IN  /\ IF db_forecast = None
           THEN response' = NotFound(call, "Forecast not found")
                /\ UNCHANGED forecasts
           ELSE response' = Ok(call)
                /\ forecasts' = (forecasts \ {db_forecast[1]}) \cup
                      {[db_forecast[1] EXCEPT
                          !.product_id = set(@, forecast.product_id),
                          !.forecasted_quantity = set(@, forecast.forecasted_quantity),
                          !.forecasted_price = set(@, forecast.forecasted_price)]}
        /\ UNCHANGED <<forecasting, transactions, products, environ, clock,
                       limiter, dispatched, registry, inflight, users, removed,
                       last_id, sessions>>

\* DELETE /api/forecasting/sales/{forecast_id}
delete_forecast(forecast_id) ==
    LET call == [op |-> "delete_forecast", id |-> forecast_id]
        forecast == ForecastById(forecast_id)
    IN  /\ IF forecast = None
           THEN response' = NotFound(call, "Forecast not found")
                /\ UNCHANGED <<forecasts, removed>>
           ELSE response' = Ok(call)
                /\ forecasts' = forecasts \ {forecast[1]}
                /\ removed' = removed \cup {forecast_id}
        /\ UNCHANGED <<forecasting, transactions, products, environ, clock,
                       limiter, dispatched, registry, inflight, users, last_id,
                       sessions>>

\* an empty sales_forecasts table in either kind of database
InitForecasts ==
    /\ ForecastingIdle
    /\ transactions = {}
    /\ products = InitialProducts
    /\ environ \in [TESTING : {None}, DATABASE_URL : {"sqlite", "postgresql"}]
    /\ clock = 0
    /\ response = NoResponse
    /\ LimiterIdle
    /\ MetricsIdle
    /\ TablesIdle

\* the requests on single forecasts
NextForecasts ==
    \/ \E forecast \in ForecastCreates : create_forecast(forecast)
    \/ \E forecast_id \in ForecastIdInputs : get_forecast(forecast_id)
    \/ \E forecast_id \in ForecastIdInputs, forecast \in ForecastUpdates :
          update_forecast(forecast_id, forecast)
    \/ \E forecast_id \in ForecastIdInputs : delete_forecast(forecast_id)

SpecForecasts == InitForecasts /\ [][NextForecasts]_vars

\* the list endpoint on a table that inserts and deletes change
NextPages ==
    \/ \E forecast \in ForecastCreates : create_forecast(forecast)
    \/ \E forecast_id \in ForecastIdInputs : delete_forecast(forecast_id)
    \/ \E page \in PageInputs, page_size \in PageSizeInputs,
          product_id \in ForecastFilters : get_forecasts(page, page_size, product_id)

SpecPages == InitForecasts /\ [][NextPages]_vars

----------------------------------------------------------------------------
(* Sales (routes/transactions.py).  In these specifications a row of the    *)
(* transactions table keeps id, vendor_id, product_id, quantity and        *)
(* total_price.  create_transaction is a plain "def": every request runs   *)
(* in a worker thread with its own database session, reads the product,    *)
(* and writes the quantity it computed from what it read at its commit.     *)

MaxSales == 2        \* the highest transaction id handed out

ExistingVendors == {1}
TransactionCreates ==
    [vendor_id : {1, 2}, product_id : ExistingProducts \cup {3},
     quantity : {6, 12}, total_price : {6}]
NoUpdate ==
    [vendor_id |-> None, product_id |-> None, quantity |-> None,
     total_price |-> None]
TransactionUpdates ==
    { [NoUpdate EXCEPT !.quantity = Some(1)],
      [NoUpdate EXCEPT !.product_id = Some(2)],
      [NoUpdate EXCEPT !.product_id = Some(3)],
      [NoUpdate EXCEPT !.vendor_id = Some(2)] }
TransactionIdInputs == 1 .. MaxSales + 1

IdleSession == [at |-> "idle"]

\* the sessions that have read their product and not committed yet
Checked == {s \in DOMAIN sessions : sessions[s].at = "checked"}

\* create_transaction up to the stock check
create_transaction_check(s, transaction) ==
    LET call == [op |-> "create_transaction", body |-> transaction]
    IN  /\ sessions[s].at = "idle"
        /\ NewId({t.id : t \in transactions}, "transactions") + Cardinality(Checked)
              <= MaxSales
        /\ IF transaction.vendor_id \notin ExistingVendors
           THEN response' = NotFound(call, "Vendor not found")
                /\ UNCHANGED sessions
           ELSE IF transaction.product_id \notin DOMAIN products
           THEN response' = NotFound(call, "Product not found")
                /\ UNCHANGED sessions
           ELSE IF products[transaction.product_id] < transaction.quantity
           THEN response' = BadRequest(call, "Insufficient stock")
                /\ UNCHANGED sessions
           ELSE sessions' = [sessions EXCEPT ![s] =
                               [at |-> "checked", transaction |-> transaction,
                                quantity |-> products[transaction.product_id]]]
                /\ UNCHANGED response
        /\ UNCHANGED <<forecasting, transactions, products, environ, clock,
                       limiter, dispatched, registry, inflight, users, forecasts,
                       removed, last_id>>

\* create_transaction from db.add to the commit: the row is inserted and the
\* product is written with the quantity read before, less the sale
create_transaction_commit(s) ==
    LET transaction == sessions[s].transaction
        call == [op |-> "create_transaction", body |-> transaction]
        id == NewId({t.id : t \in transactions}, "transactions")
    IN  /\ sessions[s].at = "checked"
        /\ transactions' = transactions \cup
              {[id |-> id, vendor_id |-> transaction.vendor_id,
                product_id |-> transaction.product_id,
                quantity |-> transaction.quantity,
                total_price |-> transaction.total_price]}
        /\ products' = [products EXCEPT ![transaction.product_id] =
                           sessions[s].quantity - transaction.quantity]
        /\ last_id' = [last_id EXCEPT !.transactions = id]
        /\ sessions' = [sessions EXCEPT ![s] = IdleSession]
        /\ response' = Ok(call)
        /\ UNCHANGED <<forecasting, environ, clock, limiter, dispatched,
                       registry, inflight, users, forecasts, removed>>

TransactionById(transaction_id) ==
    First({t \in transactions : t.id = transaction_id})

\* PUT /api/transactions/{transaction_id}
update_transaction(transaction_id, transaction) ==
    LET call == [op |-> "update_transaction", id |-> transaction_id,
                 body |-> transaction]
        db_transaction == TransactionById(transaction_id)
        set(old, new) == IF new # None THEN new[1] ELSE old
    IN  /\ IF db_transaction = None
           THEN response' = NotFound(call, "Transaction not found")
                /\ UNCHANGED transactions
           ELSE IF transaction.vendor_id # None
                   /\ transaction.vendor_id[1] \notin ExistingVendors
           THEN response' = NotFound(call, "Vendor not found")
                /\ UNCHANGED transactions
           ELSE IF transaction.product_id # None
                   /\ transaction.product_id[1] \notin DOMAIN products
           THEN response' = NotFound(call, "Product not found")
                /\ UNCHANGED transactions
           ELSE response' = Ok(call)
                /\ transactions' = (transactions \ {db_transaction[1]}) \cup
                      {[db_transaction[1] EXCEPT
                          !.vendor_id = set(@, transaction.vendor_id),
                          !.product_id = set(@, transaction.product_id),
                          !.quantity = set(@, transaction.quantity),
                          !.total_price = set(@, transaction.total_price)]}
        /\ UNCHANGED <<forecasting, products, environ, clock, limiter,
                       dispatched, registry, inflight, users, forecasts, removed,
                       last_id, sessions>>

\* DELETE /api/transactions/{transaction_id}
delete_transaction(transaction_id) ==
    LET call == [op |-> "delete_transaction", id |-> transaction_id]
        transaction == TransactionById(transaction_id)
    IN  /\ IF transaction = None
           THEN response' = NotFound(call, "Transaction not found")
                /\ UNCHANGED transactions
           ELSE response' = Ok(call)
                /\ transactions' = transactions \ {transaction[1]}
        /\ UNCHANGED <<forecasting, products, environ, clock, limiter,
                       dispatched, registry, inflight, users, forecasts, removed,
                       last_id, sessions>>

\* the shop before its first sale, with n request sessions
InitSales(n) ==
    /\ ForecastingIdle
    /\ transactions = {}
    /\ products = InitialProducts
    /\ environ = ProductionEnv
    /\ clock = 0
    /\ response = NoResponse
    /\ LimiterIdle
    /\ MetricsIdle
    /\ users = {}
    /\ forecasts = {}
    /\ removed = {}
    /\ last_id = [users |-> 0, sales_forecasts |-> 0, transactions |-> 0]
    /\ sessions = [s \in 1 .. n |-> IdleSession]

InitTx == InitSales(1)

\* one request at a time: a create runs to its commit before the next call
NextTx ==
    \/ \E transaction \in TransactionCreates :
          create_transaction_check(1, transaction)
    \/ create_transaction_commit(1)
    \/ /\ Checked = {}
       /\ \E transaction_id \in TransactionIdInputs,
             transaction \in TransactionUpdates :
             update_transaction(transaction_id, transaction)
    \/ /\ Checked = {}
       /\ \E transaction_id \in TransactionIdInputs :
             delete_transaction(transaction_id)

SpecTx == InitTx /\ [][NextTx]_vars

InitTxConc == InitSales(2)

\* two create_transaction requests in flight, interleaved at will
NextTxConc ==
    \/ \E s \in 1 .. 2, transaction \in TransactionCreates :
          create_transaction_check(s, transaction)
    \/ \E s \in 1 .. 2 : create_transaction_commit(s)

SpecTxConc == InitTxConc /\ [][NextTxConc]_vars

----------------------------------------------------------------------------
(* Vocabulary of the properties on the two paths                            *)

OnPrimary == fit.status = "ok"

OnFallback ==
    /\ fit.status \notin {"none", "ok"}
    /\ pc \in {"Fallback", "IntervalsComputed", "Assembled"}

\* the positions of the w latest-dated points of a history
LatestPositions(h, w) ==
    {i \in 1 .. Len(h) :
        Cardinality({j \in 1 .. Len(h) : DateLess(h[i].date, h[j].date)}) < w}

RECURSIVE SumValuesAt(_, _)
SumValuesAt(h, I) ==
    IF I = {} THEN 0
    ELSE LET i == CHOOSE x \in I : TRUE
         IN  h[i].value + SumValuesAt(h, I \ {i})

\* arithmetic mean of the w latest-dated values, in milli
TrailingMean(h, w) == (1000 * SumValuesAt(h, LatestPositions(h, w))) \div w

\* the margin of step i (0-based) had the confidence level been c
MarginAt(c, i) == Margin([fallback EXCEPT !.z_score = ZScore(c)], i)

----------------------------------------------------------------------------
(* C12.  Under any interleaving of two concurrent forecast requests, each  *)
(* one holds, at every step, what it would hold had it run alone on the     *)
(* history it read: its series, its fit parameters, its fallback locals,    *)
(* its forecast points and its metrics depend on its own inputs only.       *)
RunsAsAlone(l) ==
    LET h == l.historical_data
        v == Values(h)
        ownFallback == [window        |-> Window(v),
                        base_forecast |-> BaseForecast(v),
                        std_dev       |-> StdDev(v),
                        z_score       |-> ZScore(l.request.confidence_level)]
        failed == l.fit.status \notin {"none", "ok"}
    IN  /\ l.pc \in {"Aggregated", "PrimaryFit", "PrimaryFitFailed", "Fallback",
                      "IntervalsComputed", "Assembled"}
              => h = QueryResults(transactions, l.request.product_id)
        /\ l.fit.status = "ok"
              => /\ l.fit.steps = l.request.periods
                 /\ l.fit.alpha = 100 - l.request.confidence_level
        /\ l.pc \in {"Aggregated", "PrimaryFit", "PrimaryFitFailed"}
              => l.fallback = NoFallback
        /\ (failed /\ l.pc \in {"Fallback", "IntervalsComputed", "Assembled"})
              => l.fallback = ownFallback
        /\ l.pc \in {"IntervalsComputed", "Assembled"}
              => l.forecast_data =
                    IF failed THEN FallbackForecast(ownFallback, h, l.request.periods)
                    ELSE PrimaryForecast(l.fit, h, l.request.periods)
        /\ l.pc = "Assembled"
              => l.metrics = IF failed THEN FallbackMetrics(ownFallback, h)
                             ELSE PrimaryMetrics(l.fit, h)

C12_NoInterference == RunsAsAlone(Locals) /\ RunsAsAlone(other)

C12_Witness ==
    /\ pc = "Assembled" /\ other.pc = "Assembled"
    /\ fit.status = "ValueError" /\ other.fit.status = "RuntimeError"
    /\ request.confidence_level # other.request.confidence_level
    /\ fallback.z_score # other.fallback.z_score
    /\ forecast_data # other.forecast_data

----------------------------------------------------------------------------
C14_OrderSelection ==
    OnPrimary =>
        /\ fit.order = IF Len(historical_data) >= 10 THEN <<1, 1, 1>> ELSE <<1, 0, 1>>
        /\ pc = "Assembled" => metrics.order = fit.order

C14_Witness ==
    /\ pc = "Assembled" /\ OnPrimary
    /\ Len(historical_data) = 10
    /\ metrics.order = <<1, 1, 1>>

(* C15.  In fallback mode the window is min(7, sample_size), the base of   *)
(* every forecast step is the mean of the last `window` values in date      *)
(* order, and the reported window_size is that window.                      *)
C15_TrailingMovingAverage ==
    OnFallback =>
        LET n == Len(historical_data)
            w == IF n < 7 THEN n ELSE 7
            base == TrailingMean(historical_data, w)
        IN  /\ fallback.window = w
            /\ fallback.base_forecast = base
            /\ \A p \in Points : p.predicted_value = Round2(Max0(base))
            /\ pc = "Assembled" => metrics.window_size = w

C15_Witness ==
    /\ pc = "Assembled" /\ OnFallback
    /\ Len(historical_data) = 9
    /\ historical_data[1].date = LatestDate(historical_data)
    /\ historical_data[1].value = 6 /\ historical_data[9].value = -4
    /\ fallback.window = 7 /\ fallback.base_forecast = 6000
    /\ Len(forecast_data) = 2
    /\ forecast_data[2].predicted_value = 600

(* C16.  In fallback mode the z-score is 2.576 for confidence_level >=     *)
(* 0.99, 1.96 for 0.95 <= level < 0.99, 1.645 for 0.90 <= level < 0.95 and  *)
(* 1.28 for every lower level.                                              *)
C16_ZScoreBreakpoints ==
    OnFallback =>
        LET cl == request.confidence_level
        IN  /\ cl >= 99 => fallback.z_score = 2576
            /\ (95 <= cl /\ cl < 99) => fallback.z_score = 1960
            /\ (90 <= cl /\ cl < 95) => fallback.z_score = 1645
            /\ cl < 90 => fallback.z_score = 1280

C16_Witness ==
    /\ pc = "Assembled" /\ OnFallback
    /\ request.confidence_level = 95
    /\ fallback.z_score = 1960

(* C17.  In fallback mode, at the 0-based step i, margin = z * std_dev *   *)
(* (1 + 0.1 i), lower_bound = max(0, base - margin) and upper_bound = base  *)
(* + margin, rounded to 2 decimals; at step 0 the margin is z * std_dev.    *)
C17_FallbackMargins ==
    (OnFallback /\ Produced) =>
        \A k \in 1 .. Len(forecast_data) :
            LET i == k - 1
                zs == fallback.z_score * fallback.std_dev    \* units of 10^-5
                margin == IF i = 0 THEN zs \div 100
                          ELSE (zs * (10 + i)) \div 1000
                base == fallback.base_forecast
            IN  /\ forecast_data[k].lower_bound = Round2(Max0(base - margin))
                /\ forecast_data[k].upper_bound = Round2(base + margin)

C17_Witness ==
    /\ pc = "Assembled" /\ OnFallback
    /\ fallback.std_dev > 0
    /\ Len(forecast_data) = 2
    /\ forecast_data[1].upper_bound =
           Round2(fallback.base_forecast + (fallback.z_score * fallback.std_dev) \div 100)
    /\ forecast_data[1].lower_bound > 0

(* C18.  In a fallback result the interval never narrows with the step:    *)
(* for steps i < j, upper_bound_j >= upper_bound_i and lower_bound_j <=     *)
(* lower_bound_i, while predicted_value is the same at every step.          *)
C18_MarginsGrow ==
    (OnFallback /\ Produced) =>
        \A i, j \in 1 .. Len(forecast_data) :
            i < j => /\ forecast_data[j].upper_bound >= forecast_data[i].upper_bound
                     /\ forecast_data[j].lower_bound <= forecast_data[i].lower_bound
                     /\ forecast_data[j].predicted_value = forecast_data[i].predicted_value

C18_Witness ==
    /\ pc = "Assembled" /\ OnFallback
    /\ Len(forecast_data) = 2
    /\ forecast_data[2].upper_bound > forecast_data[1].upper_bound
    /\ forecast_data[2].lower_bound < forecast_data[1].lower_bound

(* C19.  On the primary path lower_bound is the native lower bound clamped *)
(* at 0 and upper_bound is the native upper bound unclamped (negative when  *)
(* the native bound is); on the fallback path upper_bound is unclamped too. *)
C19_UpperBoundNeverClamped ==
    Produced =>
        \A k \in 1 .. Len(forecast_data) :
            IF OnPrimary
            THEN /\ forecast_data[k].lower_bound = Round2(Max0(ConfInt(fit, k)[1]))
                 /\ forecast_data[k].upper_bound = Round2(ConfInt(fit, k)[2])
            ELSE forecast_data[k].upper_bound =
                     Round2(fallback.base_forecast + Margin(fallback, k - 1))

C19_Witness ==
    /\ pc = "Assembled" /\ OnPrimary
    /\ Len(forecast_data) >= 1
    /\ ConfInt(fit, 1)[2] < 0
    /\ forecast_data[1].upper_bound < 0
    /\ forecast_data[1].lower_bound = 0

(* C20.  A lower confidence level never gives a wider interval: the        *)
(* primary path asks for intervals with alpha = 1 - confidence_level, and   *)
(* on the fallback path the margin of every step is non-decreasing in the   *)
(* confidence level over [0.5, 0.99].                                       *)
C20_MarginMonotoneInConfidence ==
    /\ OnPrimary => fit.alpha = 100 - request.confidence_level
    /\ (OnFallback /\ RequestInBounds) =>
          \A c \in 50 .. 99 : \A i \in 0 .. (request.periods - 1) :
              /\ c <= request.confidence_level => MarginAt(c, i) <= Margin(fallback, i)
              /\ c >= request.confidence_level => MarginAt(c, i) >= Margin(fallback, i)

C20_Witness ==
    /\ pc = "Assembled" /\ OnFallback
    /\ request.confidence_level = 90
    /\ fallback.std_dev > 0
    /\ MarginAt(89, 0) < Margin(fallback, 0)
    /\ Margin(fallback, 0) < MarginAt(95, 0)

----------------------------------------------------------------------------
(* C21.  In fallback mode the std_dev that scales the margins is the        *)
(* population standard deviation of the historical values (divisor n,      *)
(* numpy's default), truncated to hundredths; a history reaching the       *)
(* fallback has at least 3 values.                                          *)

\* n * sum(x^2) - sum(x)^2 over the values of a history: n^2 times the
\* population variance, n * (n - 1) times the sample variance
Scatter(h) ==
    LET I == 1 .. Len(h)
        sq == [i \in I |-> [value |-> h[i].value * h[i].value]]
    IN  Len(h) * SumValuesAt(sq, I) - SumValuesAt(h, I) * SumValuesAt(h, I)

C21_PopulationStdDev ==
    OnFallback =>
        LET n == Len(historical_data)
            X == 10000 * Scatter(historical_data)
            s == fallback.std_dev
        IN  /\ n >= 3
            /\ s >= 0
            /\ (s * n) * (s * n) <= X
            /\ X < ((s + 1) * n) * ((s + 1) * n)

C21_Witness ==
    /\ OnFallback
    /\ pc = "Assembled"
    /\ fallback.std_dev > 0
    /\ \E i \in 1 .. Len(forecast_data) : MarginAt(request.confidence_level, i - 1) > 0

\* the claim as stated: the sample standard deviation (divisor n - 1), and
\* 0 for a single value
C21_SampleStdDev ==
    OnFallback =>
        LET n == Len(historical_data)
            X == 10000 * Scatter(historical_data)
            s == fallback.std_dev
        IN  IF n = 1 THEN s = 0
            ELSE /\ s >= 0
                 /\ s * s * n * (n - 1) <= X
                 /\ X < (s + 1) * (s + 1) * n * (n - 1)

----------------------------------------------------------------------------
(* Vocabulary of the rate limiter's properties                              *)

\* positions in the history of the requests of a client key that were
\* forwarded to the application
ForwardedOf(key) ==
    {i \in 1 .. Len(dispatched) :
        dispatched[i].key = key /\ dispatched[i].status_code # 429}

\* the requests of the same client forwarded before request i and less than
\* window_seconds old when request i arrived
InsideWindowAt(i) ==
    {j \in ForwardedOf(dispatched[i].key) :
        j < i /\ dispatched[i].time - dispatched[j].time < limiter.window_seconds}

\* every interval shorter than window_seconds holds at most requests_limit
\* forwarded requests of a client
WindowBound ==
    \A key \in ClientKeys, t \in 0 .. MaxClock :
        Cardinality({i \in ForwardedOf(key) :
                        /\ t <= dispatched[i].time
                        /\ dispatched[i].time < t + limiter.window_seconds})
            <= limiter.requests_limit

\* a request arriving while requests_limit forwarded ones are inside the
\* window is answered 429
RejectedWhenFull ==
    \A i \in 1 .. Len(dispatched) :
        Cardinality(InsideWindowAt(i)) >= limiter.requests_limit
            => dispatched[i].status_code = 429

----------------------------------------------------------------------------
(* C22.  Unless TESTING is set in the process environment: for every       *)
(* client key and every interval shorter than window_seconds, at most      *)
(* requests_limit requests to non-exempt paths are forwarded, and a        *)
(* request arriving while requests_limit forwarded requests are inside the *)
(* window is answered 429 and not forwarded.                                *)

C22_SlidingWindow ==
    environ.TESTING = None => WindowBound /\ RejectedWhenFull

C22_Witness ==
    /\ environ.TESTING = None
    /\ limiter.requests_limit = 2
    /\ response.op = "dispatch"
    /\ response.status_code = 429
    /\ \E i \in 1 .. Len(dispatched) :
          /\ i = Len(dispatched)
          /\ dispatched[i].status_code = 429
          /\ Cardinality(InsideWindowAt(i)) = 2

\* the claim as stated, whatever the environment
C22_AlwaysLimited == WindowBound /\ RejectedWhenFull

----------------------------------------------------------------------------
(* C29.  A request answered 429 is not recorded in the client's window: a  *)
(* request is rejected only while requests_limit forwarded requests of the *)
(* client are less than window_seconds old, every recorded timestamp is    *)
(* the time of a forwarded request, and a client never has more than       *)
(* requests_limit recorded timestamps.                                      *)

\* how many times the list holds the timestamp t
Count(times, t) == Cardinality({n \in 1 .. Len(times) : times[n] = t})

C29_RejectedNotRecorded ==
    /\ \A i \in 1 .. Len(dispatched) :
          dispatched[i].status_code = 429
              => Cardinality(InsideWindowAt(i)) >= limiter.requests_limit
    /\ \A key \in ClientKeys :
          /\ Len(Requests(key)) <= limiter.requests_limit
          /\ \A t \in 0 .. MaxClock :
                Count(Requests(key), t)
                    <= Cardinality({i \in ForwardedOf(key) : dispatched[i].time = t})

\* a client limited at second t, rejected again meanwhile, and admitted
\* exactly window_seconds after the request that had filled its window
C29_Witness ==
    \E i, j, k \in 1 .. Len(dispatched) :
        /\ i < j /\ j < k
        /\ dispatched[i].key = dispatched[j].key
        /\ dispatched[j].key = dispatched[k].key
        /\ dispatched[i].status_code = 200
        /\ dispatched[j].status_code = 429
        /\ dispatched[k].status_code = 200
        /\ dispatched[j].time > dispatched[i].time
        /\ dispatched[k].time = dispatched[i].time + limiter.window_seconds
        /\ limiter.requests_limit = 1

----------------------------------------------------------------------------
(* C30.  Under any interleaving of requests, the http_requests_active      *)
(* gauge equals the number of requests (other than /metrics) that have     *)
(* entered the middleware and not left it, whether they will leave with a  *)
(* response or with an exception; it is never negative and is 0 when every *)
(* request has completed.                                                   *)

\* the requests that have started and not ended
InFlight ==
    {r \in DOMAIN inflight : inflight[r].at \notin {"returned", "raised"}}

C30_GaugeCountsInFlight ==
    /\ registry.ACTIVE_REQUESTS
          = Cardinality({r \in InFlight : inflight[r].path # "/metrics"})
    /\ registry.ACTIVE_REQUESTS >= 0
    /\ (InFlight = {} => registry.ACTIVE_REQUESTS = 0)

\* two requests in flight while a third one has left with an exception
C30_Witness ==
    /\ registry.ACTIVE_REQUESTS = 2
    /\ Cardinality(InFlight) >= 2
    /\ \E r \in DOMAIN inflight :
          inflight[r].at = "raised" /\ inflight[r].path # "/metrics"

----------------------------------------------------------------------------
(* Vocabulary of the properties of the users table                          *)

\* the stored user with an id
UserById(id) == CHOOSE u \in users : u.id = id

\* someone other than the user holds the username or the email a body asks for
HeldByAnother(body, user) ==
    \E u \in users \ {user} :
        \/ body.username # None /\ u.username = body.username[1]
        \/ body.email # None /\ u.email = body.email[1]

\* the call answered by the step would store a second user with a username
\* or an email that is in use
WouldDuplicate(r) ==
    \/ /\ r.op = "register_user"
       /\ \E u \in users :
             u.username = r.call.body.username \/ u.email = r.call.body.email
    \/ /\ r.op = "update_current_user_profile"
       /\ HeldByAnother(r.call.body, UserById(r.call.caller))
    \/ /\ r.op = "update_user"
       /\ UserById(r.call.caller).role = "admin"
       /\ \E u \in users : u.id = r.call.id
       /\ HeldByAnother(r.call.body, UserById(r.call.id))

UniqueUsers ==
    \A u, v \in users :
        u # v => u.username # v.username /\ u.email # v.email /\ u.id # v.id

----------------------------------------------------------------------------
(* C23.  After any sequence of register_user, update_current_user_profile  *)
(* and update_user calls (and deletions), no two stored users share a      *)
(* username and no two share an email; a call that would create such a     *)
(* duplicate is rejected with 400 and stores nothing.                       *)

C23_NoDuplicateUsers ==
    /\ []UniqueUsers
    /\ [][WouldDuplicate(response')
            => (response'.status_code = 400 /\ users' = users)]_vars

C23_Witness ==
    /\ response.op = "update_user"
    /\ response.status_code = 400
    /\ response.detail = "Email already registered"
    /\ response.call.body.username = None
    /\ Cardinality(users) = 2
    /\ UniqueUsers

----------------------------------------------------------------------------
(* C24.  delete_user never removes the account of the admin who invokes    *)
(* it: a delete whose target id equals the caller's id is rejected with    *)
(* 400 "Cannot delete your own account" and the users are unchanged; a     *)
(* caller who is not an admin gets 403 and deletes nothing.                 *)

C24_NoSelfDelete ==
    [][response'.op = "delete_user" =>
          LET current_user == UserById(response'.call.caller)
          IN  /\ current_user \in users'
              /\ (current_user.role # "admin"
                    => (response'.status_code = 403 /\ users' = users))
              /\ ((current_user.role = "admin"
                     /\ response'.call.id = response'.call.caller)
                    => (/\ response'.status_code = 400
                        /\ response'.detail = "Cannot delete your own account"
                        /\ users' = users))]_vars

C24_Witness ==
    /\ response.op = "delete_user"
    /\ response.status_code = 400
    /\ response.detail = "Cannot delete your own account"
    /\ response.call.id = response.call.caller
    /\ Cardinality(users) = 2

----------------------------------------------------------------------------
(* C25.  For every total >= 0, page >= 1 and page_size in 1..100, the      *)
(* paginated list reports total_pages = ceil(total / page_size),           *)
(* has_next = (page < total_pages), has_prev = (page > 1), and returns     *)
(* exactly min(page_size, max(0, total - (page-1)*page_size)) items.        *)

\* the least n with n * b >= a
Ceil(a, b) == CHOOSE n \in 0 .. a : n * b >= a /\ (n = 0 \/ (n - 1) * b < a)

\* the rows the list request answered last was about
Listed ==
    IF response.call.product_id \in {None, Some(0)} THEN forecasts
    ELSE {f \in forecasts : f.product_id = response.call.product_id[1]}

----------------------------------------------------------------------------
(* C26.  get_forecast, update_forecast and delete_forecast on an id that   *)
(* is not stored (never created, or deleted and not handed out again)      *)
(* return 404 "Forecast not found" and change nothing; on PostgreSQL, whose *)
(* sequence never hands an id out twice, that is every request on an id    *)
(* once delete_forecast has succeeded for it.                               *)

OnOneForecast(r) ==
    r.op \in {"get_forecast", "update_forecast", "delete_forecast"}

Stored(id) == \E f \in forecasts : f.id = id

NotFoundUnchanged(r) ==
    /\ r.status_code = 404
    /\ r.detail = "Forecast not found"
    /\ forecasts' = forecasts

C26_NotStoredNotFound ==
    [][OnOneForecast(response') =>
          /\ (~Stored(response'.call.id) => NotFoundUnchanged(response'))
          /\ ((environ.DATABASE_URL = "postgresql" /\ response'.call.id \in removed)
                => NotFoundUnchanged(response'))]_vars

C26_Witness ==
    /\ response.op = "update_forecast"
    /\ response.status_code = 404
    /\ response.call.id \in removed
    /\ forecasts # {}

\* the claim as stated: 404 for ever after a successful delete, and for an
\* id that was never created
C26_DeletedStaysDeleted ==
    [][OnOneForecast(response') =>
          ((response'.call.id \in removed \/ ~Stored(response'.call.id))
              => NotFoundUnchanged(response'))]_vars

----------------------------------------------------------------------------
(* Vocabulary of the properties of sales and stock                          *)

RECURSIVE SumQuantities(_)
SumQuantities(rows) ==
    IF rows = {} THEN 0
    ELSE LET t == CHOOSE x \in rows : TRUE
         IN  t.quantity + SumQuantities(rows \ {t})

\* the quantities of the stored transactions of a product
Sold(p) == SumQuantities({t \in transactions : t.product_id = p})

----------------------------------------------------------------------------
(* C27.  Under any interleaving of concurrent create_transaction requests  *)
(* for the same product, the product's quantity never becomes negative and *)
(* the quantities of the accepted transactions never add up to more than   *)
(* the stock that was available; a request asking for more than the        *)
(* current stock is rejected with 400 and leaves the stock and the stored  *)
(* transactions unchanged.                                                  *)

C27_NoOverselling ==
    /\ [](\A p \in DOMAIN products :
             products[p] >= 0 /\ Sold(p) <= InitialProducts[p])
    /\ [][(response'.op = "create_transaction" /\ response'.status_code = 400)
             => (products' = products /\ transactions' = transactions)]_vars
    /\ [][\A s \in DOMAIN sessions :
             (sessions[s].at = "idle" /\ sessions'[s].at = "checked")
                => sessions'[s].transaction.quantity
                      <= products[sessions'[s].transaction.product_id]]_vars

----------------------------------------------------------------------------
(* C28.  After any sequence of create_transaction, update_transaction and  *)
(* delete_transaction calls, for every product the current quantity plus   *)
(* the sum of the quantities of its stored transactions equals the         *)
(* product's quantity before the first transaction.                         *)

C28_StockMatchesSales ==
    \A p \in DOMAIN products : products[p] + Sold(p) = InitialProducts[p]

====
